---- MODULE Spec2Model ----
(***************************************************************************)
(* Model of ipaplatform/redhat/tasks.py: the IPAVersion comparison class   *)
(* and the RedHatTaskNamespace operations on SELinux booleans, PKCS#11     *)
(* module files, the DNS resolver file, the p11-kit trust file and the     *)
(* file-removal / advisory helpers.                                        *)
(***************************************************************************)
EXTENDS Integers, Sequences, FiniteSets, TLC

VARIABLES
    verA, verB,          \* _version of two IPAVersion objects (tuples of characters)
    librpm,              \* environment: "present" | "absent" (can librpm.rpmvercmp be loaded)
    rpmvercmp_func,      \* IPAVersion._rpmvercmp_func: "None" | "rpmvercmp"
    loadAttempts,        \* number of times ctypes.CDLL(find_library('rpm')) was executed
    verRes,              \* the last comparison made: [op, x, y, out]
    hashSeed,            \* environment: the secret that keys str.__hash__ in this process
    verHash,             \* the last hash(verA), hash(verB) taken: [done, a, b]
    selinuxenabled,      \* environment: what running selinuxenabled does: "exit0" | "exit1" | "missing"
    sebool,              \* the SELinux policy: boolean name -> "on" | "off"
    seCall,              \* the last set_selinux_booleans call: its inputs, what it ran, its outcome
    modFile,             \* /etc/pkcs11/modules/softhsm2.module: Absent or its content
    origModFile,         \* history: modFile before the first configure_pkcs11_modules
    fstoreFile,          \* the file store's copy of the module file, or NoCopy
    backupCalls,         \* history: number of fstore.backup_file calls on the module file
    pkcsConfigures,      \* history: number of configure_pkcs11_modules calls
    pkcsRestores,        \* history: number of restore_pkcs11_modules calls
    unlinkDenied,        \* environment: unlink of an existing file fails with EACCES
    httpdConf,           \* the httpd systemd drop-in: "absent" | "present"
    caBundle,            \* the CA bundle file: "absent" | "present"
    systemctl,           \* environment: what running systemctl daemon-reload does
    daemonReloads,       \* history: number of successful daemon reloads
    fileOp,              \* the last file operation: [op, unlinkErr, outcome, ret, log]
    restoreconExists,    \* environment: os.path.exists(paths.SBIN_RESTORECON)
    restoreconRun,       \* environment: what running restorecon does
    updateCaTrust,       \* environment: what running update-ca-trust does
    advOp,               \* the last advisory operation: [op, ran, outcome, ret, log]
    nmEnabled,           \* environment: knownservices['NetworkManager'].is_enabled()
    resolve1Enabled,     \* environment: systemd-resolved in use, what callers pass as resolve1_enabled
    dnsFstore,           \* whether the installer passes its file store as fstore
    resolvConf,          \* /etc/resolv.conf: Absent or its text
    nmConf,              \* the NetworkManager drop-in: Absent or its text
    fstoreResolv,        \* the file store's copy of /etc/resolv.conf, or NoCopy
    nmReloads,           \* history: number of nm.reload_or_restart() calls
    dnsCall,             \* the last configure_dns_resolver call: its arguments
    p11File,             \* the p11-kit trust file: Absent or the stanzas written to it
    p11Call,             \* the last write_p11kit_certs call: [done, ca_certs, ret]
    sysconfNetwork,      \* /etc/sysconfig/network: Absent or its text (tuple of characters)
    nisCall              \* the set_nisdomain calls: [calls, nisdomain, previous, before]

verVars == <<verA, verB, librpm, rpmvercmp_func, loadAttempts, verRes, hashSeed, verHash>>

seVars == <<selinuxenabled, sebool, seCall>>

fileVars == <<modFile, origModFile, fstoreFile, backupCalls, pkcsConfigures, pkcsRestores,
              unlinkDenied, httpdConf, caBundle, systemctl, daemonReloads, fileOp>>

advVars == <<restoreconExists, restoreconRun, updateCaTrust, advOp>>

dnsVars == <<nmEnabled, resolve1Enabled, dnsFstore, resolvConf, nmConf, fstoreResolv, nmReloads, dnsCall>>

p11Vars == <<p11File, p11Call>>

nisVars == <<sysconfNetwork, nisCall>>

vars == <<verVars, seVars, fileVars, advVars, dnsVars, p11Vars, nisVars>>

(***************************************************************************)
(* Bounds                                                                  *)
(***************************************************************************)
MaxVerLen == 2           \* longest exhaustively enumerated version string
MaxLoadAttempts == 3     \* load attempts followed in one process
MaxContentLen == 3       \* longest exhaustively enumerated module file found on disk
MaxConfigures == 3       \* configure_pkcs11_modules calls followed
MaxRestores == 2         \* restore_pkcs11_modules calls followed
MaxReloads == 2          \* daemon reloads counted
MaxNameservers == 2      \* longest nameservers list
MaxSearchDomains == 2    \* longest searchdomains list
MaxNmReloads == 2        \* NetworkManager reloads counted
MaxCerts == 3            \* longest ca_certs list
MaxNisLines == 2         \* most lines of the network sysconfig file found on disk
MaxNisCalls == 2         \* set_nisdomain calls followed

(***************************************************************************)
(* Generic helpers                                                         *)
(***************************************************************************)
RECURSIVE SeqsUpTo(_, _)
SeqsUpTo(S, n) ==
    IF n = 0 THEN {<<>>}
    ELSE LET shorter == SeqsUpTo(S, n - 1)
         IN  shorter \cup {Append(s, x) : s \in shorter, x \in S}

\* a Python bool as a value that can sit beside "raised" and "none"
PyBool(b) == IF b THEN "True" ELSE "False"

Range(s) == {s[i] : i \in 1..Len(s)}

RECURSIVE TakeWhile(_, _)
TakeWhile(s, Cls) ==
    IF s = <<>> \/ Head(s) \notin Cls THEN <<>>
    ELSE <<Head(s)>> \o TakeWhile(Tail(s), Cls)

RECURSIVE DropWhile(_, _)
DropWhile(s, Cls) ==
    IF s = <<>> \/ Head(s) \notin Cls THEN s
    ELSE DropWhile(Tail(s), Cls)

(***************************************************************************)
(* IPAVersion: str.encode('utf-8') and the librpm routine                  *)
(***************************************************************************)
\* the characters version strings are built from, with their UTF-8 encoding
Utf8(ch) ==
    CASE ch = "0" -> <<48>>  [] ch = "1" -> <<49>>  [] ch = "2" -> <<50>>
      [] ch = "9" -> <<57>>
      [] ch = "a" -> <<97>>  [] ch = "b" -> <<98>>  [] ch = "c" -> <<99>>
      [] ch = "r" -> <<114>> [] ch = "R" -> <<82>>
      [] ch = "." -> <<46>>  [] ch = "-" -> <<45>>  [] ch = "_" -> <<95>>
      [] ch = "~" -> <<126>> [] ch = "^" -> <<94>>
      [] ch = "e'" -> <<195, 169>>      \* U+00E9, two bytes

RECURSIVE Encode(_)
Encode(version) ==
    IF version = <<>> THEN <<>>
    ELSE Utf8(Head(version)) \o Encode(Tail(version))

TILDE == 126
CARET == 94
DigitBytes == 48..57
AlphaBytes == (65..90) \cup (97..122)
AlnumBytes == DigitBytes \cup AlphaBytes
SepBytes == (1..255) \ (AlnumBytes \cup {TILDE, CARET})

\* strcmp() on two NUL-free byte strings: <0, 0, >0
RECURSIVE StrCmp(_, _)
StrCmp(s, t) ==
    IF s = <<>> /\ t = <<>> THEN 0
    ELSE IF s = <<>> THEN -1
    ELSE IF t = <<>> THEN 1
    ELSE IF Head(s) # Head(t) THEN Head(s) - Head(t)
    ELSE StrCmp(Tail(s), Tail(t))

\* the segment loop of rpmvercmp(): one, two are the unread rests of a and b
RECURSIVE RpmSegments(_, _)
RpmSegments(one0, two0) ==
    IF one0 = <<>> /\ two0 = <<>> THEN 0
    ELSE
    LET one == DropWhile(one0, SepBytes)
        two == DropWhile(two0, SepBytes)
        h1 == IF one = <<>> THEN 0 ELSE Head(one)
        h2 == IF two = <<>> THEN 0 ELSE Head(two)
    IN
    IF h1 = TILDE \/ h2 = TILDE THEN
        IF h1 # TILDE THEN 1
        ELSE IF h2 # TILDE THEN -1
        ELSE RpmSegments(Tail(one), Tail(two))
    ELSE IF h1 = CARET \/ h2 = CARET THEN
        IF h1 = 0 THEN -1
        ELSE IF h2 = 0 THEN 1
        ELSE IF h1 # CARET THEN 1
        ELSE IF h2 # CARET THEN -1
        ELSE RpmSegments(Tail(one), Tail(two))
    ELSE IF h1 = 0 \/ h2 = 0 THEN
        (IF h1 = 0 /\ h2 = 0 THEN 0 ELSE IF h1 = 0 THEN -1 ELSE 1)
    ELSE
    LET isnum == h1 \in DigitBytes
        Cls == IF isnum THEN DigitBytes ELSE AlphaBytes
        seg1 == TakeWhile(one, Cls)
        seg2 == TakeWhile(two, Cls)
        rest1 == DropWhile(one, Cls)
        rest2 == DropWhile(two, Cls)
        n1 == IF isnum THEN DropWhile(seg1, {48}) ELSE seg1
        n2 == IF isnum THEN DropWhile(seg2, {48}) ELSE seg2
        rc == StrCmp(n1, n2)
    IN
    IF seg1 = <<>> THEN -1
    ELSE IF seg2 = <<>> THEN (IF isnum THEN 1 ELSE -1)
    ELSE IF isnum /\ Len(n1) > Len(n2) THEN 1
    ELSE IF isnum /\ Len(n2) > Len(n1) THEN -1
    ELSE IF rc # 0 THEN (IF rc < 1 THEN -1 ELSE 1)
    ELSE RpmSegments(rest1, rest2)

\* int rpmvercmp(const char *a, const char *b)
RpmVerCmp(a, b) == IF a = b THEN 0 ELSE RpmSegments(a, b)

IPAVersion_eq_Mutant(a, b) == RpmVerCmp(Encode(a), Encode(b)) >= 0

\* IPAVersion.__eq__
IPAVersion_eq(a, b) == RpmVerCmp(Encode(a), Encode(b)) = 0

IPAVersion_lt_Mutant(a, b) == RpmVerCmp(Encode(a), Encode(b)) <= 0

IPAVersion_lt_Flipped(a, b) == RpmVerCmp(Encode(a), Encode(b)) > 0

\* IPAVersion.__lt__
IPAVersion_lt(a, b) == RpmVerCmp(Encode(a), Encode(b)) < 0

\* functools.total_ordering: __gt__ and __le__ derived from __lt__ and __eq__
IPAVersion_gt(a, b) == ~IPAVersion_lt(a, b) /\ ~IPAVersion_eq(a, b)
IPAVersion_le(a, b) == IPAVersion_lt(a, b) \/ IPAVersion_eq(a, b)

\* the three-way result a caller derives from the rich comparisons
Compare(a, b) ==
    IF IPAVersion_eq(a, b) THEN "EQUAL"
    ELSE IF IPAVersion_lt(a, b) THEN "LESS"
    ELSE "GREATER"

Neg(r) == CASE r = "LESS" -> "GREATER" [] r = "GREATER" -> "LESS" [] OTHER -> r

VerAlphabet == {"1", "a", ".", "~", "^"}

ExampleVersions ==
    { <<"1", ".", "0">>, <<"1", ".", "0", ".", "1">>,
      <<"1", ".", "2", "-", "1">>, <<"1", ".", "2", "-", "2">>,
      <<"1", ".", "0", "~", "r", "c", "1">>,
      <<"2", ".", "0">>, <<"1", ".", "9", ".", "9">>,
      <<"1", "_", "0">>, <<"1", "e'", "0">>, <<"0", "1", ".", "0">>,
      <<"1", ".", "0", "R">>, <<"1", ".", "0", "b">>, <<"1", ".", "0", "^">>,
      <<"0">>, <<"0", "0">>, <<"1", "0">>, <<"9">> }

Versions == SeqsUpTo(VerAlphabet, MaxVerLen) \cup ExampleVersions

NoCompare == [op |-> "none", x |-> <<>>, y |-> <<>>, out |-> "none"]

\* str.__hash__: a keyed hash of the text that is 0 for the empty string and
\* the same for equal texts; which values unequal texts get depends on the
\* key of the process.  Values are kept to HashMod.
HashMod == 2^24
HashSeeds == {7, 1000003}

RECURSIVE HashBytes(_, _)
HashBytes(h, bytes) ==
    IF bytes = <<>> THEN h
    ELSE HashBytes((h * 31 + Head(bytes)) % HashMod, Tail(bytes))

str_hash(seed, text) == IF text = <<>> THEN 0 ELSE HashBytes(seed, Encode(text))

\* IPAVersion.__hash__: hash(self._version)
IPAVersion_hash(seed, version) == str_hash(seed, version)

NoHash == [done |-> FALSE, a |-> 0, b |-> 0]

(***************************************************************************)
(* ipautil.run as its callers in this file see it                          *)
(***************************************************************************)
\* what running a utility can do: exit 0, exit non-zero (CalledProcessError),
\* or not start because the binary is not available (OSError)
RunOutcomes == {"exit0", "exit1", "missing"}

is_selinux_enabled_Mutant(outcome) == outcome # "missing"

\* RedHatTaskNamespace.is_selinux_enabled
is_selinux_enabled(outcome) ==
    CASE outcome = "exit0" -> TRUE
      [] outcome = "exit1" -> FALSE       \* except CalledProcessError
      [] outcome = "missing" -> FALSE     \* except OSError

(***************************************************************************)
(* set_selinux_booleans                                                    *)
(***************************************************************************)
Settings == {"httpd_can_network_connect", "httpd_manage_ipa", "httpd_run_ipa"}
SettingOrder == <<"httpd_can_network_connect", "httpd_manage_ipa", "httpd_run_ipa">>
BoolStates == {"on", "off"}

EmptyDict == [k \in {} |-> "None"]
DictPut(d, k, v) == [x \in (DOMAIN d) \cup {k} |-> IF x = k THEN v ELSE d[x]]
\* dict.update(other)
DictUpdate(d, other) ==
    [x \in (DOMAIN d) \cup (DOMAIN other) |-> IF x \in DOMAIN other THEN other[x] ELSE d[x]]

\* output of "getsebool <name>" and the code's reading of it, output.split()[2]
GetseboolOutput(setting, value) == <<setting, "-->", value>>
OriginalState(output) == output[3]

\* one pass of the "for setting, state in required_settings.items()" body
LoopBody_Mutant(acc, setting, state, current, getFails) ==
    IF state = "None" \/ acc.aborted THEN acc
    ELSE IF setting \in getFails
    THEN [acc EXCEPT !.failed = DictPut(acc.failed, setting, state), !.aborted = TRUE]
    ELSE LET original_state == OriginalState(GetseboolOutput(setting, current[setting]))
         IN  [acc EXCEPT
                 !.backups = Append(acc.backups, <<setting, original_state>>),
                 !.updated = IF original_state # state
                             THEN DictPut(acc.updated, setting, state)
                             ELSE acc.updated]

LoopBody(acc, setting, state, current, getFails) ==
    IF state = "None" THEN acc                                   \* continue
    ELSE IF setting \in getFails                                 \* CalledProcessError
    THEN [acc EXCEPT !.failed = DictPut(acc.failed, setting, state)]
    ELSE LET original_state == OriginalState(GetseboolOutput(setting, current[setting]))
         IN  [acc EXCEPT
                 !.backups = Append(acc.backups, <<setting, original_state>>),
                 !.updated = IF original_state # state
                             THEN DictPut(acc.updated, setting, state)
                             ELSE acc.updated]

RECURSIVE QueryLoop(_, _, _, _)
QueryLoop(i, required_settings, current, getFails) ==
    IF i = 0
    THEN [updated |-> EmptyDict, failed |-> EmptyDict, backups |-> <<>>, aborted |-> FALSE]
    ELSE LET acc == QueryLoop(i - 1, required_settings, current, getFails)
             setting == SettingOrder[i]
         IN  IF setting \in DOMAIN required_settings
             THEN LoopBody(acc, setting, required_settings[setting], current, getFails)
             ELSE acc

NoSeCall ==
    [done |-> FALSE, required |-> EmptyDict, before |-> EmptyDict, getFails |-> {},
     setseboolOk |-> TRUE, invocations |-> <<>>, backups |-> <<>>,
     result |-> "none", failed |-> EmptyDict]

set_selinux_booleans_return_Mutant(updated_vars) ==
    IF DOMAIN updated_vars # {} THEN "True" ELSE "False"

\* the value of the final "return True"
set_selinux_booleans_return(updated_vars) == "True"

\* RedHatTaskNamespace.set_selinux_booleans(required_settings, backup_func)
set_selinux_booleans(required_settings, getFails, setseboolOk, withBackup) ==
    LET call == [NoSeCall EXCEPT !.done = TRUE, !.required = required_settings,
                                 !.before = sebool, !.getFails = getFails,
                                 !.setseboolOk = setseboolOk]
    IN
    IF ~is_selinux_enabled(selinuxenabled)
    THEN /\ seCall' = [call EXCEPT !.result = "False"]
         /\ UNCHANGED sebool
    ELSE
    LET acc == QueryLoop(Len(SettingOrder), required_settings, sebool, getFails)
        updated_vars == acc.updated
        runs == DOMAIN updated_vars # {}
        failed_vars == IF runs /\ ~setseboolOk
                       THEN DictUpdate(acc.failed, updated_vars)
                       ELSE acc.failed
    IN  /\ sebool' = IF runs /\ setseboolOk
                     THEN [s \in Settings |->
                             IF s \in DOMAIN updated_vars THEN updated_vars[s] ELSE sebool[s]]
                     ELSE sebool
        /\ seCall' = [call EXCEPT
                        !.invocations = IF runs THEN <<updated_vars>> ELSE <<>>,
                        !.backups = IF withBackup THEN acc.backups ELSE <<>>,
                        !.failed = failed_vars,
                        !.result = IF DOMAIN failed_vars # {} THEN "SetseboolError"
                                   ELSE set_selinux_booleans_return(updated_vars)]

RequiredSettings ==
    UNION { [D -> BoolStates \cup {"None"}] : D \in SUBSET Settings }

\* One call is followed per run: the call reads nothing but the policy and
\* the environment, and the initial states range over all of both.
SetSelinuxBooleans ==
    /\ ~seCall.done
    /\ \E required_settings \in RequiredSettings,
       setseboolOk \in BOOLEAN, withBackup \in BOOLEAN :
        \E getFails \in SUBSET {s \in DOMAIN required_settings :
                                    required_settings[s] # "None"} :
          /\ set_selinux_booleans(required_settings, getFails, setseboolOk, withBackup)
          /\ UNCHANGED selinuxenabled
          /\ UNCHANGED <<verVars, fileVars, advVars, dnsVars, p11Vars, nisVars>>


(***************************************************************************)
(* Files: text, the file store, unlink                                     *)
(***************************************************************************)
\* sep.join(list), on texts that are tuples of characters
RECURSIVE Join(_, _)
Join(list, sep) ==
    IF list = <<>> THEN <<>>
    ELSE IF Len(list) = 1 THEN list[1]
    ELSE list[1] \o sep \o Join(Tail(list), sep)

\* "pat in text"
IsSubstring(pat, text) ==
    \E i \in 1..(Len(text) - Len(pat) + 1) : SubSeq(text, i, i + Len(pat) - 1) = pat

\* a file that does not exist, and a store that holds no copy: values that
\* are no file content
Absent == <<"<absent>">>
NoCopy == <<"<none>">>

\* sysrestore.FileStore as this file uses it, for the one path it is given
fstore_has_file(store) == store # NoCopy
fstore_backup_file(store, content) == content
fstore_restore_file(store) == [file |-> store, store |-> NoCopy]

\* os.unlink(path): the errno it fails with, or "none"
UnlinkError(exists, denied) ==
    IF ~exists THEN "ENOENT"
    ELSE IF denied THEN "EACCES"
    ELSE "none"

(***************************************************************************)
(* configure_pkcs11_modules / restore_pkcs11_modules                       *)
(***************************************************************************)
HeaderLine ==
    <<"#", " ", "c", "r", "e", "a", "t", "e", "d", " ", "b", "y", " ",
    "I", "P", "A", " ", "i", "n", "s", "t", "a", "l", "l", "e", "r",
    "\n">>
ModulePrefix ==
    <<"m", "o", "d", "u", "l", "e", ":", " ">>
DisableInPrefix ==
    <<"d", "i", "s", "a", "b", "l", "e", "-", "i", "n", ":", " ">>
P11KitProxy ==
    <<"p", "1", "1", "-", "k", "i", "t", "-", "p", "r", "o", "x", "y">>

\* PKCS11_MODULES: (base filename, module, disabled-in); the module path is
\* paths.LIBSOFTHSM2_SO, kept as one opaque character
PKCS11_MODULES == << [name |-> "softhsm2", module |-> <<"LIBSOFTHSM2_SO">>,
                      disabled_in |-> <<P11KitProxy>>] >>

\* the three f.write() calls
ModuleFileContent(m) ==
    HeaderLine
    \o ModulePrefix \o m.module \o <<"\n">>
    \o DisableInPrefix \o Join(m.disabled_in, <<",", " ">>) \o <<"\n">>

is_ipa_file_Mutant(content) == content = ModuleFileContent(PKCS11_MODULES[1])

\* is_ipa_file = "IPA" in content
is_ipa_file(content) == IsSubstring(<<"I", "P", "A">>, content)

ShouldBackup_Mutant(content, store) == ~fstore_has_file(store)

\* if not is_ipa_file and not fstore.has_file(filename)
ShouldBackup(content, store) == ~is_ipa_file(content) /\ ~fstore_has_file(store)

NoFileOp == [op |-> "none", unlinkErr |-> "none", outcome |-> "none",
             ret |-> "none", log |-> "none"]

\* RedHatTaskNamespace.configure_pkcs11_modules(fstore); restore_context is
\* the no-op it is while selinuxenabled does not exit 0
ConfigurePkcs11Modules ==
    /\ pkcsConfigures < MaxConfigures
    /\ ~is_selinux_enabled(selinuxenabled)
    /\ LET backup == modFile # Absent /\ ShouldBackup(modFile, fstoreFile)
       IN  /\ fstoreFile' = IF backup THEN fstore_backup_file(fstoreFile, modFile)
                            ELSE fstoreFile
           /\ backupCalls' = IF backup THEN backupCalls + 1 ELSE backupCalls
    /\ modFile' = ModuleFileContent(PKCS11_MODULES[1])
    /\ pkcsConfigures' = pkcsConfigures + 1
    /\ fileOp' = [NoFileOp EXCEPT !.op = "configure_pkcs11_modules",
                                  !.outcome = "returned", !.ret = "[softhsm2.module]"]
    /\ UNCHANGED <<origModFile, pkcsRestores, unlinkDenied, httpdConf, caBundle,
                   systemctl, daemonReloads>>
    /\ UNCHANGED <<verVars, seVars, advVars, dnsVars, p11Vars, nisVars>>

restore_unlink_swallowed_Mutant(err) == err = "ENOENT"

\* restore_pkcs11_modules: "except OSError: pass" takes every errno
restore_unlink_swallowed(err) == err \in {"ENOENT", "EACCES"}

\* RedHatTaskNamespace.restore_pkcs11_modules(fstore)
RestorePkcs11Modules ==
    /\ pkcsRestores < MaxRestores
    /\ pkcsRestores' = pkcsRestores + 1
    /\ LET err == UnlinkError(modFile # Absent, unlinkDenied)
           unlinked == IF err = "none" THEN Absent ELSE modFile
       IN  IF err # "none" /\ ~restore_unlink_swallowed(err)
           THEN /\ fileOp' = [NoFileOp EXCEPT !.op = "restore_pkcs11_modules",
                                !.unlinkErr = err, !.outcome = "raised OSError"]
                /\ UNCHANGED <<modFile, fstoreFile>>
           ELSE /\ fileOp' = [NoFileOp EXCEPT !.op = "restore_pkcs11_modules",
                                !.unlinkErr = err, !.outcome = "returned",
                                !.ret = IF err = "none" THEN "[softhsm2.module]" ELSE "[]"]
                /\ IF fstore_has_file(fstoreFile)
                   THEN /\ modFile' = fstore_restore_file(fstoreFile).file
                        /\ fstoreFile' = fstore_restore_file(fstoreFile).store
                   ELSE /\ modFile' = unlinked
                        /\ UNCHANGED fstoreFile
    /\ UNCHANGED <<origModFile, backupCalls, pkcsConfigures, unlinkDenied, httpdConf,
                   caBundle, systemctl, daemonReloads>>
    /\ UNCHANGED <<verVars, seVars, advVars, dnsVars, p11Vars, nisVars>>

(***************************************************************************)
(* remove_httpd_service_ipa_conf / remove_ca_certificates_bundle           *)
(***************************************************************************)
httpd_unlink_swallowed_Mutant(err) == err = "ENOENT"

\* remove_httpd_service_ipa_conf: both branches of "except OSError" log and
\* fall through to the same return
httpd_unlink_swallowed(err) == err \in {"ENOENT", "EACCES"}

\* RedHatTaskNamespace.remove_httpd_service_ipa_conf()
RemoveHttpdServiceIpaConf ==
    /\ LET err == UnlinkError(httpdConf = "present", unlinkDenied)
           op == [NoFileOp EXCEPT !.op = "remove_httpd_service_ipa_conf", !.unlinkErr = err]
       IN  IF err # "none"
           THEN /\ fileOp' = IF httpd_unlink_swallowed(err)
                             THEN [op EXCEPT !.outcome = "returned", !.ret = "None",
                                             !.log = IF err = "ENOENT" THEN "debug"
                                                     ELSE "error"]
                             ELSE [op EXCEPT !.outcome = "raised OSError"]
                /\ UNCHANGED <<httpdConf, daemonReloads>>
           ELSE \* systemd_daemon_reload(): ipautil.run raises on failure
                /\ httpdConf' = "absent"
                /\ daemonReloads' = IF systemctl = "exit0" /\ daemonReloads < MaxReloads
                                    THEN daemonReloads + 1 ELSE daemonReloads
                /\ fileOp' = CASE systemctl = "exit0" ->
                                    [op EXCEPT !.outcome = "returned", !.ret = "None"]
                               [] systemctl = "exit1" ->
                                    [op EXCEPT !.outcome = "raised CalledProcessError"]
                               [] systemctl = "missing" ->
                                    [op EXCEPT !.outcome = "raised OSError"]
    /\ UNCHANGED <<modFile, origModFile, fstoreFile, backupCalls, pkcsConfigures,
                   pkcsRestores, unlinkDenied, caBundle, systemctl>>
    /\ UNCHANGED <<verVars, seVars, advVars, dnsVars, p11Vars, nisVars>>

bundle_unlink_raises_Mutant(err) == FALSE

\* remove_ca_certificates_bundle: "except Exception: logger.error(...); raise"
bundle_unlink_raises(err) == err # "none"

\* RedHatTaskNamespace.remove_ca_certificates_bundle(filename)
RemoveCaCertificatesBundle ==
    /\ LET op == [NoFileOp EXCEPT !.op = "remove_ca_certificates_bundle"]
           err == UnlinkError(caBundle = "present", unlinkDenied)
       IN  IF caBundle = "absent"                    \* not path.is_file()
           THEN /\ fileOp' = [op EXCEPT !.outcome = "returned", !.ret = "False"]
                /\ UNCHANGED caBundle
           ELSE IF bundle_unlink_raises(err)
           THEN /\ fileOp' = [op EXCEPT !.unlinkErr = err, !.outcome = "raised OSError",
                                        !.log = "error"]
                /\ UNCHANGED caBundle
           ELSE /\ fileOp' = [op EXCEPT !.unlinkErr = err, !.outcome = "returned",
                                        !.ret = "True"]
                /\ caBundle' = IF err = "none" THEN "absent" ELSE caBundle
    /\ UNCHANGED <<modFile, origModFile, fstoreFile, backupCalls, pkcsConfigures,
                   pkcsRestores, unlinkDenied, httpdConf, systemctl, daemonReloads>>
    /\ UNCHANGED <<verVars, seVars, advVars, dnsVars, p11Vars, nisVars>>

\* module files found on disk that no IPA installer wrote
ContentAlphabet == {"I", "P", "A", "m"}
FoundContents == SeqsUpTo(ContentAlphabet, MaxContentLen)

(***************************************************************************)
(* restore_context / reload_systemwide_ca_store                            *)
(***************************************************************************)
NoAdvOp == [op |-> "none", ran |-> "none", outcome |-> "none", ret |-> "none",
            log |-> "none"]

\* RedHatTaskNamespace.restore_context(filepath, force); run(..., raiseonerr=False)
\* returns whatever the exit code is, and raises when restorecon cannot be started
RestoreContext ==
    \E force \in BOOLEAN :
        /\ advOp' =
             IF ~is_selinux_enabled(selinuxenabled) \/ ~restoreconExists
             THEN [NoAdvOp EXCEPT !.op = "restore_context", !.outcome = "returned",
                                  !.ret = "None"]
             ELSE LET args == IF force THEN "restorecon -F filepath"
                              ELSE "restorecon filepath"
                      op == [NoAdvOp EXCEPT !.op = "restore_context", !.ran = args]
                  IN  CASE restoreconRun = "exit0" ->
                             [op EXCEPT !.outcome = "returned", !.ret = "None"]
                        [] restoreconRun = "exit1" ->
                             [op EXCEPT !.outcome = "returned", !.ret = "None"]
                        [] restoreconRun = "missing" ->
                             [op EXCEPT !.outcome = "raised OSError"]
        /\ UNCHANGED <<restoreconExists, restoreconRun, updateCaTrust>>
        /\ UNCHANGED <<verVars, seVars, fileVars, dnsVars, p11Vars, nisVars>>

\* RedHatTaskNamespace.reload_systemwide_ca_store()
ReloadSystemwideCaStore ==
    /\ advOp' =
         LET op == [NoAdvOp EXCEPT !.op = "reload_systemwide_ca_store",
                                   !.ran = "update-ca-trust"]
         IN  CASE updateCaTrust = "exit0" ->
                    [op EXCEPT !.outcome = "returned", !.ret = "True", !.log = "info"]
               [] updateCaTrust = "exit1" ->       \* except CalledProcessError
                    [op EXCEPT !.outcome = "returned", !.ret = "False", !.log = "error"]
               [] updateCaTrust = "missing" ->     \* OSError: no handler
                    [op EXCEPT !.outcome = "raised OSError"]
    /\ UNCHANGED <<restoreconExists, restoreconRun, updateCaTrust>>
    /\ UNCHANGED <<verVars, seVars, fileVars, dnsVars, p11Vars, nisVars>>

\* RedHatTaskNamespace.check_selinux_status(restorecon) with os.path.exists
\* tested before is_selinux_enabled
check_selinux_status_Mutant(outcome, exists) ==
    IF ~exists
    THEN [outcome |-> "raised RuntimeError", ret |-> "none"]
    ELSE [outcome |-> "returned", ret |-> PyBool(is_selinux_enabled(outcome))]

\* RedHatTaskNamespace.check_selinux_status(restorecon): outcome is what
\* running selinuxenabled gives, exists is os.path.exists(restorecon)
check_selinux_status(outcome, exists) ==
    IF ~is_selinux_enabled(outcome)
    THEN [outcome |-> "returned", ret |-> "False"]
    ELSE IF ~exists
         THEN [outcome |-> "raised RuntimeError", ret |-> "none"]
         ELSE [outcome |-> "returned", ret |-> "True"]

CheckSelinuxStatus ==
    /\ advOp' =
         LET r == check_selinux_status(selinuxenabled, restoreconExists)
         IN  [NoAdvOp EXCEPT !.op = "check_selinux_status", !.ran = "selinuxenabled",
                             !.outcome = r.outcome, !.ret = r.ret]
    /\ UNCHANGED <<restoreconExists, restoreconRun, updateCaTrust>>
    /\ UNCHANGED <<verVars, seVars, fileVars, dnsVars, p11Vars, nisVars>>

(***************************************************************************)
(* configure_dns_resolver                                                  *)
(***************************************************************************)
\* Texts of this group are tuples of words and of the separators " ", ","
\* and "\n"; addresses and domain names are single words.
RECURSIVE SplitLines(_)
SplitLines(text) ==
    LET first == TakeWhile(text, {w \in Range(text) : w # "\n"})
    IN  IF Len(first) = Len(text) THEN <<first>>
        ELSE <<first>> \o SplitLines(SubSeq(text, Len(first) + 2, Len(text)))

Words(list) == [i \in 1..Len(list) |-> <<list[i]>>]

ResolvConfLines_Mutant(nameservers, searchdomains) ==
    << <<"# auto-generated by IPA installer">>,
       <<"search", " ">> \o Join(Words(searchdomains), <<",">>) >>
    \o [i \in 1..Len(nameservers) |-> <<"nameserver", " ", nameservers[i]>>]

\* the list cfg of the resolv.conf branch
ResolvConfLines(nameservers, searchdomains) ==
    << <<"# auto-generated by IPA installer">>,
       <<"search", " ">> \o Join(Words(searchdomains), <<" ">>) >>
    \o [i \in 1..Len(nameservers) |-> <<"nameserver", " ", nameservers[i]>>]

\* NM_IPA_CONF.format(dnsprocessing=..., servers=..., searches=...)
NmIpaConf(dnsprocessing, servers, searches) ==
    Join(<< <<>>,
            <<"# auto-generated by IPA installer">>,
            <<"[main]">>,
            <<"dns=", dnsprocessing>>,
            <<>>,
            <<"[global-dns]">>,
            <<"searches=">> \o searches,
            <<>>,
            <<"[global-dns-domain-*]">>,
            <<"servers=">> \o servers,
            <<>> >>, <<"\n">>)

NoDnsCall == [done |-> FALSE, nameservers |-> <<>>, searchdomains |-> <<>>,
              resolve1_enabled |-> FALSE, fstore |-> FALSE, nm_enabled |-> FALSE]

\* RedHatTaskNamespace.configure_dns_resolver(nameservers, searchdomains,
\* resolve1_enabled=..., fstore=...); the base class's part writes the
\* systemd-resolved drop-in only and touches none of the files kept here
configure_dns_resolver(nameservers, searchdomains, resolve1_enabled, fstore) ==
    /\ nameservers # <<>>                        \* assert nameservers
    /\ searchdomains # <<>>                      \* assert searchdomains
    /\ fstoreResolv' =
         IF fstore /\ ~fstore_has_file(fstoreResolv) /\ resolvConf # Absent
         THEN fstore_backup_file(fstoreResolv, resolvConf)
         ELSE fstoreResolv
    /\ IF nmEnabled
       THEN /\ nmConf' = NmIpaConf(IF resolve1_enabled THEN "systemd-resolved"
                                   ELSE "default",
                                   Join(Words(nameservers), <<",">>),
                                   Join(Words(searchdomains), <<",">>))
            /\ nmReloads' = IF nmReloads < MaxNmReloads THEN nmReloads + 1
                            ELSE nmReloads
       ELSE UNCHANGED <<nmConf, nmReloads>>
    /\ IF ~resolve1_enabled /\ ~nmEnabled
       THEN resolvConf' = Join(ResolvConfLines(nameservers, searchdomains), <<"\n">>)
       ELSE UNCHANGED resolvConf
    /\ dnsCall' = [done |-> TRUE, nameservers |-> nameservers,
                   searchdomains |-> searchdomains,
                   resolve1_enabled |-> resolve1_enabled, fstore |-> fstore,
                   nm_enabled |-> nmEnabled]

Addresses == {"10.0.0.1", "10.0.0.2"}
Domains == {"example.com", "ipa.test"}

ConfigureDnsResolver ==
    \E nameservers \in SeqsUpTo(Addresses, MaxNameservers),
       searchdomains \in SeqsUpTo(Domains, MaxSearchDomains) :
        /\ configure_dns_resolver(nameservers, searchdomains, resolve1Enabled, dnsFstore)
        /\ UNCHANGED <<nmEnabled, resolve1Enabled, dnsFstore>>
        /\ UNCHANGED <<verVars, seVars, fileVars, advVars, p11Vars, nisVars>>

(***************************************************************************)
(* write_p11kit_certs                                                      *)
(***************************************************************************)
\* urllib.parse.quote on the characters used here: letters, digits and
\* "_.-~/" stay, every other character becomes its %XX escape
SafeChars == {"A", "B", "0", "2", "1", "e", "k", "u", "_", ".", "-", "~", "/"}

QuoteChar_Mutant(ch) ==
    IF ch \in SafeChars \cup {"%"} THEN <<ch>>
    ELSE IF ch = " " THEN <<"%", "2", "0">>
    ELSE <<"%", "3", "A">>

QuoteChar(ch) ==
    CASE ch \in SafeChars -> <<ch>>
      [] ch = "%" -> <<"%", "2", "5">>
      [] ch = " " -> <<"%", "2", "0">>
      [] ch = ":" -> <<"%", "3", "A">>

RECURSIVE Quote(_)
Quote(s) == IF s = <<>> THEN <<>> ELSE QuoteChar(Head(s)) \o Quote(Tail(s))

\* extended_key_usage of a certificate without the extension
NoEku == <<"<None>">>

NeedsEku_Mutant(cert, public_key_info, has_eku) == cert.eku # NoEku

\* cert.extended_key_usage is not None and public_key_info not in has_eku
NeedsEku(cert, public_key_info, has_eku) ==
    cert.eku # NoEku /\ public_key_info \notin has_eku

\* the two objects written for one certificate
CertObject(cert, label, public_key_info) ==
    [class |-> "certificate", label |-> label, pki |-> public_key_info,
     trust |-> CASE cert.trusted = "True" -> "trusted: true"
                 [] cert.trusted = "False" -> "x-distrusted: true"
                 [] OTHER -> "",
     value |-> <<>>]

EkuObject(cert, label, public_key_info) ==
    [class |-> "x-certificate-extension",
     label |-> <<"E", "K", "U", " ">> \o label, pki |-> public_key_info,
     trust |-> "", value |-> Quote(cert.eku)]

\* the "for cert, nickname, trusted, _ext_key_usage in ca_certs" loop
RECURSIVE WriteCerts(_, _, _)
WriteCerts(ca_certs, written, has_eku) ==
    IF ca_certs = <<>> THEN written
    ELSE LET cert == Head(ca_certs)
             label == Quote(cert.nickname)
             public_key_info == Quote(cert.key)
             withCert == Append(written, CertObject(cert, label, public_key_info))
         IN  IF NeedsEku(cert, public_key_info, has_eku)
             THEN WriteCerts(Tail(ca_certs),
                             Append(withCert, EkuObject(cert, label, public_key_info)),
                             has_eku \cup {public_key_info})
             ELSE WriteCerts(Tail(ca_certs), withCert, has_eku)

NoP11Call == [done |-> FALSE, ca_certs |-> <<>>, ret |-> "none"]

\* public-key-info values, two of which differ only by an escape
Keys == { <<"A">>, <<" ">>, <<"%", "2", "0">> }
EkuValues == { NoEku, <<"e", "k", "u", "1">>, <<"e", "k", "u", ":", "2">> }
Certs == { [nickname |-> <<"A", " ", "B">>, key |-> k, eku |-> e, trusted |-> t] :
             k \in Keys, e \in EkuValues, t \in {"True", "None"} }

\* RedHatTaskNamespace.write_p11kit_certs(filename, ca_certs).  One call is
\* followed per run: the file is opened with "w", so nothing an earlier call
\* wrote is read or kept.
WriteP11kitCerts ==
    /\ ~p11Call.done
    /\ \E ca_certs \in SeqsUpTo(Certs, MaxCerts) :
        /\ p11File' = WriteCerts(ca_certs, <<>>, {})
        /\ p11Call' = [done |-> TRUE, ca_certs |-> ca_certs, ret |-> "True"]
    /\ UNCHANGED <<verVars, seVars, fileVars, advVars, dnsVars, nisVars>>

(***************************************************************************)
(* set_nisdomain                                                           *)
(***************************************************************************)
\* Texts of this group are tuples of characters.
NISDOMAIN == <<"N", "I", "S", "D", "O", "M", "A", "I", "N">>
Whitespace == {" ", "\t", "\n"}

\* iteration over a text file: the lines with their "\n", the last one as it
\* is when the file does not end in "\n"
RECURSIVE FileLines(_)
FileLines(text) ==
    IF text = <<>> THEN <<>>
    ELSE LET first == TakeWhile(text, {c \in Range(text) : c # "\n"})
         IN  IF Len(first) = Len(text) THEN <<first>>
             ELSE <<Append(first, "\n")>>
                  \o FileLines(SubSeq(text, Len(first) + 2, Len(text)))

Reverse(s) == [i \in 1..Len(s) |-> s[Len(s) + 1 - i]]

\* str.strip()
Strip(line) == Reverse(DropWhile(Reverse(DropWhile(line, Whitespace)), Whitespace))

\* str.upper() on the letters that occur
UpperChar(c) ==
    CASE c = "n" -> "N" [] c = "i" -> "I" [] c = "s" -> "S" [] c = "d" -> "D"
      [] c = "o" -> "O" [] c = "m" -> "M" [] c = "a" -> "A" [] c = "b" -> "B"
      [] c = "e" -> "E"
      [] OTHER -> c
Upper(line) == [i \in 1..Len(line) |-> UpperChar(line[i])]

\* str.startswith(prefix)
StartsWith(line, prefix) ==
    Len(line) >= Len(prefix) /\ SubSeq(line, 1, Len(prefix)) = prefix

\* line.strip().upper().startswith('NISDOMAIN')
IsNisdomainLine(line) == StartsWith(Upper(Strip(line)), NISDOMAIN)

\* "NISDOMAIN={}\n".format(nisdomain)
NisdomainLine(nisdomain) == NISDOMAIN \o <<"=">> \o nisdomain \o <<"\n">>

\* set_nisdomain(nisdomain): the text written to the file; open() of a file
\* that does not exist raises IOError and leaves content empty
set_nisdomain(file, nisdomain) ==
    LET Keep(line) == ~IsNisdomainLine(line)
        content == IF file = Absent THEN <<>>
                   ELSE SelectSeq(FileLines(file), Keep)
    IN  Join(Append(content, NisdomainLine(nisdomain)), <<>>)

NoNisCall == [calls |-> 0, nisdomain |-> <<>>, previous |-> <<>>, before |-> Absent]

NisDomains == {<<"d">>, <<"e">>}

\* lines found in the file, without their "\n"
NetworkLines ==
    { NISDOMAIN \o <<"=", "o">>,
      <<"n", "i", "s", "d", "o", "m", "a", "i", "n", "=", "o">>,
      <<" ", "N", "i", "s", "D", "o", "m", "a", "i", "n", "=", "o">>,
      <<"#", " ">> \o NISDOMAIN \o <<"=", "o">>,
      <<"F", "=", "b">>,
      <<>> }

\* the file before the first call: missing, empty, or up to MaxNisLines
\* lines, the last of them with or without its "\n"
NetworkFiles ==
    {Absent}
    \cup { Join([i \in 1..Len(ls) |-> Append(ls[i], "\n")], <<>>) :
             ls \in SeqsUpTo(NetworkLines, MaxNisLines) }
    \cup { Join([i \in 1..Len(ls) |-> Append(ls[i], "\n")], <<>>) \o last :
             ls \in SeqsUpTo(NetworkLines, MaxNisLines - 1),
             last \in NetworkLines \ {<<>>} }

\* RedHatTaskNamespace.set_nisdomain(nisdomain)
SetNisdomain ==
    \E nisdomain \in NisDomains :
        /\ nisCall.calls < MaxNisCalls
        /\ sysconfNetwork' = set_nisdomain(sysconfNetwork, nisdomain)
        /\ nisCall' = [calls |-> nisCall.calls + 1, nisdomain |-> nisdomain,
                       previous |-> nisCall.nisdomain, before |-> sysconfNetwork]
        /\ UNCHANGED <<verVars, seVars, fileVars, advVars, dnsVars, p11Vars>>

(***************************************************************************)
(* IPAVersion: the comparisons of one process                              *)
(***************************************************************************)
\* IPAVersion._rpmvercmp followed by the test of its result in __eq__ / __lt__
RpmVerCmpCall(op, x, y) ==
    /\ (rpmvercmp_func = "None") => (loadAttempts < MaxLoadAttempts)
    /\ IF rpmvercmp_func = "None"
       THEN /\ loadAttempts' = loadAttempts + 1
            /\ IF librpm = "present"
               THEN /\ rpmvercmp_func' = "rpmvercmp"
                    /\ verRes' = [op |-> op, x |-> x, y |-> y,
                                  out |-> PyBool(IF op = "eq" THEN IPAVersion_eq(x, y)
                                                 ELSE IPAVersion_lt(x, y))]
               ELSE /\ rpmvercmp_func' = "None"
                    /\ verRes' = [op |-> op, x |-> x, y |-> y, out |-> "raised"]
       ELSE /\ UNCHANGED <<loadAttempts, rpmvercmp_func>>
            /\ verRes' = [op |-> op, x |-> x, y |-> y,
                          out |-> PyBool(IF op = "eq" THEN IPAVersion_eq(x, y)
                                         ELSE IPAVersion_lt(x, y))]
    /\ UNCHANGED <<verA, verB, librpm, hashSeed, verHash>>
    /\ UNCHANGED <<seVars, fileVars, advVars, dnsVars, p11Vars, nisVars>>

\* verA == verB
Eq == RpmVerCmpCall("eq", verA, verB)

\* verA < verB
Lt == RpmVerCmpCall("lt", verA, verB)

\* hash(verA), hash(verB), as a set or a dictionary takes them
Hash ==
    /\ verHash' = [done |-> TRUE, a |-> IPAVersion_hash(hashSeed, verA),
                                  b |-> IPAVersion_hash(hashSeed, verB)]
    /\ UNCHANGED <<verA, verB, librpm, rpmvercmp_func, loadAttempts, verRes, hashSeed>>
    /\ UNCHANGED <<seVars, fileVars, advVars, dnsVars, p11Vars, nisVars>>


(***************************************************************************)
(* Specifications: one per group of operations; the state of the other     *)
(* groups is held at rest                                                  *)
(***************************************************************************)
\* the version objects of a process that compares no versions
VerIdle ==
    /\ verA = <<>>
    /\ verB = <<>>
    /\ librpm = "present"
    /\ rpmvercmp_func = "None"
    /\ loadAttempts = 0
    /\ verRes = NoCompare
    /\ hashSeed = 7
    /\ verHash = NoHash

SeIdle ==
    /\ selinuxenabled = "exit1"
    /\ sebool = [s \in Settings |-> "off"]
    /\ seCall = NoSeCall

FilesIdle ==
    /\ modFile = Absent
    /\ origModFile = Absent
    /\ fstoreFile = NoCopy
    /\ backupCalls = 0
    /\ pkcsConfigures = 0
    /\ pkcsRestores = 0
    /\ unlinkDenied = FALSE
    /\ httpdConf = "absent"
    /\ caBundle = "absent"
    /\ systemctl = "exit0"
    /\ daemonReloads = 0
    /\ fileOp = NoFileOp

AdvIdle ==
    /\ restoreconExists = FALSE
    /\ restoreconRun = "missing"
    /\ updateCaTrust = "exit0"
    /\ advOp = NoAdvOp

DnsIdle ==
    /\ nmEnabled = FALSE
    /\ resolve1Enabled = FALSE
    /\ dnsFstore = FALSE
    /\ resolvConf = Absent
    /\ nmConf = Absent
    /\ fstoreResolv = NoCopy
    /\ nmReloads = 0
    /\ dnsCall = NoDnsCall

P11Idle ==
    /\ p11File = Absent
    /\ p11Call = NoP11Call

NisIdle ==
    /\ sysconfNetwork = Absent
    /\ nisCall = NoNisCall


InitVer ==
    /\ SeIdle
    /\ FilesIdle
    /\ AdvIdle
    /\ DnsIdle
    /\ P11Idle
    /\ NisIdle
    /\ verA \in Versions
    /\ verB \in Versions
    /\ librpm \in {"present", "absent"}
    /\ rpmvercmp_func = "None"
    /\ loadAttempts = 0
    /\ verRes = NoCompare
    /\ hashSeed = 7
    /\ verHash = NoHash

NextVer == Eq \/ Lt

SpecVer == InitVer /\ [][NextVer]_vars

\* the version objects of a process that has librpm, compared and hashed
InitHash ==
    /\ SeIdle
    /\ FilesIdle
    /\ AdvIdle
    /\ DnsIdle
    /\ P11Idle
    /\ NisIdle
    /\ verA \in Versions
    /\ verB \in Versions
    /\ librpm = "present"
    /\ rpmvercmp_func = "None"
    /\ loadAttempts = 0
    /\ verRes = NoCompare
    /\ hashSeed \in HashSeeds
    /\ verHash = NoHash

NextHash == Eq \/ Lt \/ Hash

SpecHash == InitHash /\ [][NextHash]_vars

InitSe ==
    /\ VerIdle
    /\ FilesIdle
    /\ AdvIdle
    /\ DnsIdle
    /\ P11Idle
    /\ NisIdle
    /\ selinuxenabled \in RunOutcomes
    /\ sebool \in [Settings -> BoolStates]
    /\ seCall = NoSeCall

NextSe == SetSelinuxBooleans

SpecSe == InitSe /\ [][NextSe]_vars
InitFiles ==
    /\ VerIdle
    /\ SeIdle
    /\ AdvIdle
    /\ DnsIdle
    /\ P11Idle
    /\ NisIdle
    /\ modFile \in {Absent, ModuleFileContent(PKCS11_MODULES[1])} \cup FoundContents
    /\ origModFile = modFile
    /\ fstoreFile = NoCopy
    /\ backupCalls = 0
    /\ pkcsConfigures = 0
    /\ pkcsRestores = 0
    /\ unlinkDenied \in BOOLEAN
    /\ httpdConf \in {"absent", "present"}
    /\ caBundle \in {"absent", "present"}
    /\ systemctl \in RunOutcomes
    /\ daemonReloads = 0
    /\ fileOp = NoFileOp

NextFiles ==
    \/ ConfigurePkcs11Modules
    \/ RestorePkcs11Modules
    \/ RemoveHttpdServiceIpaConf
    \/ RemoveCaCertificatesBundle

SpecFiles == InitFiles /\ [][NextFiles]_vars
InitAdv ==
    /\ VerIdle
    /\ FilesIdle
    /\ DnsIdle
    /\ P11Idle
    /\ NisIdle
    /\ selinuxenabled \in RunOutcomes
    /\ sebool = [s \in Settings |-> "off"]
    /\ seCall = NoSeCall
    /\ restoreconExists \in BOOLEAN
    /\ restoreconRun \in RunOutcomes
    /\ restoreconExists = FALSE => restoreconRun = "missing"
    /\ updateCaTrust \in RunOutcomes
    /\ advOp = NoAdvOp

NextAdv == RestoreContext \/ ReloadSystemwideCaStore \/ CheckSelinuxStatus

SpecAdv == InitAdv /\ [][NextAdv]_vars

InitDns ==
    /\ VerIdle
    /\ SeIdle
    /\ FilesIdle
    /\ AdvIdle
    /\ P11Idle
    /\ NisIdle
    /\ nmEnabled \in BOOLEAN
    /\ resolve1Enabled \in BOOLEAN
    /\ dnsFstore \in BOOLEAN
    /\ resolvConf \in {Absent, <<"nameserver", " ", "192.0.2.1", "\n">>}
    /\ nmConf = Absent
    /\ fstoreResolv = NoCopy
    /\ nmReloads = 0
    /\ dnsCall = NoDnsCall

NextDns == ConfigureDnsResolver

SpecDns == InitDns /\ [][NextDns]_vars

InitP11 ==
    /\ VerIdle
    /\ SeIdle
    /\ FilesIdle
    /\ AdvIdle
    /\ DnsIdle
    /\ NisIdle
    /\ p11File = Absent
    /\ p11Call = NoP11Call

NextP11 == WriteP11kitCerts

SpecP11 == InitP11 /\ [][NextP11]_vars

InitNis ==
    /\ VerIdle
    /\ SeIdle
    /\ FilesIdle
    /\ AdvIdle
    /\ DnsIdle
    /\ P11Idle
    /\ sysconfNetwork \in NetworkFiles
    /\ nisCall = NoNisCall

NextNis == SetNisdomain

SpecNis == InitNis /\ [][NextNis]_vars


(***************************************************************************)
(* Version comparison: properties                                          *)
(***************************************************************************)
V_1_0 == <<"1", ".", "0">>
V_1_0_1 == <<"1", ".", "0", ".", "1">>
V_1_2_1 == <<"1", ".", "2", "-", "1">>
V_1_2_2 == <<"1", ".", "2", "-", "2">>
V_1_0_rc1 == <<"1", ".", "0", "~", "r", "c", "1">>
V_2_0 == <<"2", ".", "0">>
V_1_9_9 == <<"1", ".", "9", ".", "9">>

\* a comparison was made and returned
Compared == verRes.op # "none" /\ verRes.out # "raised"

\* the comparison just made is x ? y and its outcome is what a three-way
\* result r of compare(x, y) implies for the operator that was called
Returned(x, y, r) ==
    (Compared /\ verRes.x = x /\ verRes.y = y) =>
        verRes.out = PyBool(IF verRes.op = "eq" THEN r = "EQUAL" ELSE r = "LESS")

\* C3: IPAVersion comparison is a total order consistent with equality:
\* reflexive, antisymmetric (compare(a,b) = -compare(b,a), a < b exactly when
\* b > a), transitive, and stable: what a comparison returns depends only on
\* the two strings, not on whether the routine was loaded by this call or by
\* an earlier one.
C3_TotalOrder ==
    Compared =>
        LET x == verRes.x
            y == verRes.y
        IN  /\ (x = y) => verRes.out = PyBool(verRes.op = "eq")
            /\ Returned(x, y, Compare(x, y))
            /\ Returned(x, y, Neg(Compare(y, x)))
            /\ (verRes.op = "lt") => (verRes.out = PyBool(IPAVersion_gt(y, x)))
            /\ (verRes.op = "lt" /\ verRes.out = "True") =>
                   \A c \in Versions : IPAVersion_le(y, c) => IPAVersion_lt(x, c)
            /\ (verRes.op = "eq" /\ verRes.out = "True") =>
                   \A c \in Versions : Compare(x, c) = Compare(y, c)

C3_Witness ==
    /\ rpmvercmp_func = "rpmvercmp"
    /\ verRes = [op |-> "lt", x |-> V_1_0, y |-> V_1_0_1, out |-> "True"]
    /\ \E c \in Versions : IPAVersion_lt(V_1_0_1, c)

\* the characters of a version string by what rpmvercmp takes them for
AlnumChars == {"0", "1", "2", "9", "a", "b", "c", "r", "R"}
SepChars == {".", "-", "_", "e'"}

TildeFree(v) == \A i \in 1..Len(v) : v[i] # "~"

\* the versions obtained from x by taking out one tilde-marked segment (a
\* tilde and the run of letters and digits that follows it)
WithoutTildeSegment(x) ==
    { SubSeq(x, 1, i - 1) \o DropWhile(SubSeq(x, i + 1, Len(x)), AlnumChars) :
        i \in {j \in 1..Len(x) : x[j] = "~"} }

\* x is y followed by a tilde-marked rest
TildeSuffixed(x, y) ==
    /\ Len(x) > Len(y)
    /\ SubSeq(x, 1, Len(y)) = y
    /\ x[Len(y) + 1] = "~"

EmptyAgainst(v) ==
    LET rest == DropWhile(v, SepChars)
    IN  IF rest = <<>> THEN "EQUAL"
        ELSE IF Head(rest) = "~" THEN "GREATER"
        ELSE "LESS"

\* C7 as stated: the empty version string compares strictly less than every
\* non-empty version string, those made only of separators or tildes included.
C7_EmptyLessThanAll ==
    (Compared /\ verRes.x = <<>> /\ verRes.y # <<>>) =>
        Returned(verRes.x, verRes.y, "LESS")

\* C7 (amended): the empty version string compares strictly less than every
\* version whose first character after leading separators is a letter, a
\* digit or a caret; it compares equal to a version made only of separators
\* and greater than a version whose first non-separator character is a tilde.
C7_EmptyVersion ==
    /\ (Compared /\ verRes.x = <<>>) =>
           Returned(verRes.x, verRes.y, EmptyAgainst(verRes.y))
    /\ (Compared /\ verRes.y = <<>>) =>
           Returned(verRes.x, verRes.y, Neg(EmptyAgainst(verRes.x)))

C7_Witness ==
    verRes = [op |-> "lt", x |-> <<>>, y |-> <<".", "1">>, out |-> "True"]

(***************************************************************************)
(* set_selinux_booleans: properties                                        *)
(***************************************************************************)
SeEnabledCall == seCall.done /\ is_selinux_enabled(selinuxenabled)

\* the settings of the call with a target, those whose query failed, and
\* those that were queried and found off their target
SeAsked == {s \in DOMAIN seCall.required : seCall.required[s] # "None"}
SeQueryFailed == seCall.getFails
SeOffTarget == {s \in SeAsked \ SeQueryFailed : seCall.before[s] # seCall.required[s]}
SeIntended(S) == [s \in S |-> seCall.required[s]]

\* C1: with SELinux enabled, a failed getsebool query does not stop the
\* batch: every other setting with a target that differs from its queried
\* value is in the single setsebool -P invocation; when that invocation
\* succeeds the SetseboolError raised names exactly the settings whose query
\* failed, with their intended values; with no failed query and a successful
\* setsebool no error is raised.
C1_BatchCompletes ==
    SeEnabledCall =>
        /\ Len(seCall.invocations) <= 1
        /\ (SeOffTarget # {}) =>
               seCall.invocations = <<SeIntended(SeOffTarget)>>
        /\ (SeOffTarget = {}) => seCall.invocations = <<>>
        /\ (SeOffTarget = {} \/ seCall.setseboolOk) =>
               /\ seCall.failed = SeIntended(SeQueryFailed)
               /\ (seCall.result = "SetseboolError") <=> (SeQueryFailed # {})

C1_Witness ==
    /\ SeEnabledCall
    /\ DOMAIN seCall.required = Settings
    /\ Cardinality(SeQueryFailed) = 1
    /\ Cardinality(SeOffTarget) = 2
    /\ seCall.setseboolOk
    /\ seCall.result = "SetseboolError"
    /\ \A s \in SeOffTarget : sebool[s] = seCall.required[s]

\* C8 as stated: with SELinux enabled and no failure the call returns True
\* only when a boolean was off its target and was changed, and something
\* other than True when nothing had to be changed.
C8_ReportsChange ==
    (SeEnabledCall /\ seCall.result # "SetseboolError") =>
        ((seCall.result = "True") <=> (sebool # seCall.before))

\* C8 (amended): the call returns False, changing nothing, when SELinux is
\* not enabled; with SELinux enabled and no failure it returns True whether
\* or not a boolean had to be changed, so True says that every setting with
\* a target is now at its target, not that a change was made.
C8_ReturnValue ==
    seCall.done =>
        /\ ~is_selinux_enabled(selinuxenabled) =>
               /\ seCall.result = "False"
               /\ seCall.invocations = <<>>
               /\ sebool = seCall.before
        /\ (is_selinux_enabled(selinuxenabled) /\ DOMAIN seCall.failed = {}) =>
               seCall.result = "True"
        /\ (seCall.result = "True") =>
               /\ is_selinux_enabled(selinuxenabled)
               /\ \A s \in SeAsked : sebool[s] = seCall.required[s]

C8_Witness ==
    /\ SeEnabledCall
    /\ SeAsked # {}
    /\ seCall.invocations = <<>>
    /\ sebool = seCall.before
    /\ seCall.result = "True"

(***************************************************************************)
(* PKCS#11 module files and file removal: properties                       *)
(***************************************************************************)
GeneratedModuleFile == ModuleFileContent(PKCS11_MODULES[1])
Marker == <<"I", "P", "A">>

\* configure_pkcs11_modules has been called, with no restore so far
ConfiguredOnly == pkcsConfigures >= 1 /\ pkcsRestores = 0

\* C2 as stated: over any sequence of configure_pkcs11_modules calls with no
\* restore in between, a module file that existed before the first call is
\* backed up exactly once, and a file the writer generated is never backed up.
C2_ExistingFileBackedUpOnce ==
    ConfiguredOnly =>
        /\ (origModFile # Absent /\ origModFile # GeneratedModuleFile) => backupCalls = 1
        /\ (origModFile = GeneratedModuleFile) => backupCalls = 0

\* C2 (amended): over any sequence of configure_pkcs11_modules calls with no
\* restore in between, a module file that existed before the first call and
\* whose content does not contain "IPA" is backed up exactly once, with that
\* content; a file whose content contains "IPA", whether the writer generated
\* it or not, is never backed up.
C2_BackupOnce ==
    ConfiguredOnly =>
        IF origModFile # Absent /\ ~IsSubstring(Marker, origModFile)
        THEN backupCalls = 1 /\ fstoreFile = origModFile
        ELSE backupCalls = 0 /\ fstoreFile = NoCopy

C2_Witness ==
    /\ pkcsConfigures = 3
    /\ pkcsRestores = 0
    /\ origModFile = <<"P", "A", "m">>
    /\ backupCalls = 1
    /\ modFile = GeneratedModuleFile

RemovalOps ==
    {"remove_httpd_service_ipa_conf", "restore_pkcs11_modules",
     "remove_ca_certificates_bundle"}

\* C9 as stated: the file-removal operations take only "file not found" for
\* "already absent"; any other failure to remove the file reaches the caller.
C9_OnlyNotFoundSwallowed ==
    (fileOp.op \in RemovalOps) =>
        /\ (fileOp.unlinkErr = "ENOENT") => fileOp.outcome = "returned"
        /\ (fileOp.unlinkErr = "EACCES") => fileOp.outcome = "raised OSError"

\* C9 (amended): remove_ca_certificates_bundle returns False when the file is
\* not there and lets any failure to remove it reach the caller;
\* remove_httpd_service_ipa_conf and restore_pkcs11_modules let no failure of
\* the removal reach the caller: the first logs "not found" at debug level and
\* any other failure at error level and returns, the second ignores every
\* OSError of the unlink and leaves the file out of the list it returns.
C9_RemovalFailures ==
    /\ (fileOp.op = "remove_ca_certificates_bundle") =>
           /\ fileOp.unlinkErr # "ENOENT"
           /\ (fileOp.unlinkErr = "EACCES") <=> (fileOp.outcome = "raised OSError")
           /\ (fileOp.unlinkErr = "EACCES") => caBundle = "present"
           /\ (fileOp.outcome = "returned") =>
                  /\ fileOp.ret \in {"True", "False"}
                  /\ caBundle = "absent"
    /\ (fileOp.op = "remove_httpd_service_ipa_conf" /\ fileOp.unlinkErr # "none") =>
           /\ fileOp.outcome = "returned"
           /\ fileOp.log = (IF fileOp.unlinkErr = "ENOENT" THEN "debug" ELSE "error")
           /\ httpdConf = (IF fileOp.unlinkErr = "ENOENT" THEN "absent" ELSE "present")
    /\ (fileOp.op = "restore_pkcs11_modules") =>
           /\ fileOp.outcome = "returned"
           /\ (fileOp.unlinkErr # "none") => fileOp.ret = "[]"

C9_Witness ==
    /\ fileOp.op = "remove_httpd_service_ipa_conf"
    /\ fileOp.unlinkErr = "EACCES"
    /\ fileOp.outcome = "returned"
    /\ httpdConf = "present"

(***************************************************************************)
(* configure_dns_resolver: properties                                      *)
(***************************************************************************)
\* the call took the resolv.conf branch
DnsStatic == dnsCall.done /\ ~dnsCall.nm_enabled /\ ~dnsCall.resolve1_enabled

SearchLine(searchdomains) == <<"search", " ">> \o Join(Words(searchdomains), <<" ">>)
NameserverLine(address) == <<"nameserver", " ", address>>

\* C4 as stated: with neither NetworkManager nor systemd-resolved enabled the
\* file written has "search <space-joined domains>" as its first line,
\* followed by exactly one "nameserver <ip>" line per address, in input order.
C4_SearchLineFirst ==
    DnsStatic =>
        LET lines == SplitLines(resolvConf)
        IN  /\ Len(lines) = 1 + Len(dnsCall.nameservers)
            /\ lines[1] = SearchLine(dnsCall.searchdomains)
            /\ \A i \in 1..Len(dnsCall.nameservers) :
                   lines[1 + i] = NameserverLine(dnsCall.nameservers[i])

\* C4 (amended): with neither NetworkManager nor systemd-resolved enabled the
\* file written has the comment "# auto-generated by IPA installer" as its
\* first line and "search <space-joined domains>" as its second, followed by
\* exactly one "nameserver <ip>" line per address, in input order.
C4_StaticResolvConf ==
    DnsStatic =>
        LET lines == SplitLines(resolvConf)
        IN  /\ Len(lines) = 2 + Len(dnsCall.nameservers)
            /\ lines[1] = <<"# auto-generated by IPA installer">>
            /\ lines[2] = SearchLine(dnsCall.searchdomains)
            /\ \A i \in 1..Len(dnsCall.nameservers) :
                   lines[2 + i] = NameserverLine(dnsCall.nameservers[i])

C4_Witness ==
    /\ DnsStatic
    /\ dnsCall.nameservers = <<"10.0.0.1", "10.0.0.2">>
    /\ dnsCall.searchdomains = <<"example.com">>
    /\ resolvConf = <<"# auto-generated by IPA installer", "\n",
                      "search", " ", "example.com", "\n",
                      "nameserver", " ", "10.0.0.1", "\n",
                      "nameserver", " ", "10.0.0.2">>

(***************************************************************************)
(* write_p11kit_certs: properties                                          *)
(***************************************************************************)
EkuObjects == {i \in 1..Len(p11File) : p11File[i].class = "x-certificate-extension"}
EkuObjectsFor(k) == {i \in EkuObjects : p11File[i].pki = Quote(k)}
InputCerts == Range(p11Call.ca_certs)
InputKeys == {c.key : c \in InputCerts}
KeysWithEku == {c.key : c \in {d \in InputCerts : d.eku # NoEku}}

\* C5 as stated: exactly one extended-key-usage stanza per distinct
\* public-key-info value among the input certificates, for any input list.
C5_OneEkuPerKey ==
    p11Call.done =>
        \A k \in InputKeys : Cardinality(EkuObjectsFor(k)) = 1

\* C5 (amended): exactly one extended-key-usage stanza per distinct
\* public-key-info value among the input certificates that carry an
\* extended-key-usage extension, however many of them share the key, and
\* none for a key whose certificates all lack the extension.
C5_OneEkuPerKeyWithEku ==
    p11Call.done =>
        /\ \A k \in KeysWithEku : Cardinality(EkuObjectsFor(k)) = 1
        /\ \A k \in Keys \ KeysWithEku : EkuObjectsFor(k) = {}
        /\ Cardinality(EkuObjects) = Cardinality(KeysWithEku)

C5_Witness ==
    /\ p11Call.done
    /\ Len(p11Call.ca_certs) = 3
    /\ Cardinality(InputKeys) = 2
    /\ Cardinality(KeysWithEku) = 1
    /\ \A i \in 1..2 : /\ p11Call.ca_certs[i].key = p11Call.ca_certs[1].key
                       /\ p11Call.ca_certs[i].eku # NoEku
    /\ Cardinality(EkuObjects) = 1

(***************************************************************************)
(* Advisory operations: properties                                         *)
(***************************************************************************)
\* C10: restore_context and reload_systemwide_ca_store never abort the
\* caller: whether the utility exits 0, exits non-zero or cannot be run, they
\* return without raising, reload_systemwide_ca_store returning True on
\* success and False on failure.
C10_AdvisoryNeverRaises ==
    (advOp.op \in {"restore_context", "reload_systemwide_ca_store"}) =>
        /\ advOp.outcome = "returned"
        /\ (advOp.op = "reload_systemwide_ca_store") =>
               advOp.ret = (IF updateCaTrust = "exit0" THEN "True" ELSE "False")

C12_LoadAttemptedAtMostOnce ==
    /\ loadAttempts <= 1
    /\ (rpmvercmp_func # "None") => (loadAttempts = 1 /\ verRes.out # "raised")

(***************************************************************************)
(* configure_pkcs11_modules then restore_pkcs11_modules: properties        *)
(***************************************************************************)
\* one or more configure_pkcs11_modules calls followed by the first
\* restore_pkcs11_modules, which has just returned
ConfiguredThenRestored ==
    /\ pkcsConfigures >= 1
    /\ pkcsRestores = 1
    /\ fileOp.op = "restore_pkcs11_modules"
    /\ fileOp.outcome = "returned"

\* C13 as stated: after one or more configure_pkcs11_modules calls and one
\* restore_pkcs11_modules call on the same file store the module file is in
\* its state from before the first configure call: its original content,
\* whatever that was, if it existed, and absent if it did not (the removal
\* of the file being permitted).
C13_RoundTrip ==
    (ConfiguredThenRestored /\ ~unlinkDenied) => modFile = origModFile

\* C13: the configure calls followed by one restore put back an original
\* file whose content does not contain "IPA"; an original file that contains
\* "IPA" was never copied and is removed, as is the file written where none
\* existed; where the removal is refused and there is no copy to put back,
\* the generated file stays.
C13_RoundTripUnlessMarked ==
    ConfiguredThenRestored =>
        IF origModFile # Absent /\ ~IsSubstring(Marker, origModFile)
        THEN modFile = origModFile
        ELSE modFile = (IF unlinkDenied THEN GeneratedModuleFile ELSE Absent)

\* two configure calls and one restore have put back an original file
C13_Witness ==
    /\ ConfiguredThenRestored
    /\ pkcsConfigures >= 2
    /\ origModFile # Absent
    /\ ~IsSubstring(Marker, origModFile)
    /\ modFile = origModFile

(***************************************************************************)
(* IPAVersion.__eq__ / __hash__: properties                                *)
(***************************************************************************)
\* C14: two IPAVersion objects that compare equal, versions that differ only
\* in separator characters included, have equal hash values.
C14_EqualVersionsHashEqual ==
    (verRes.op = "eq" /\ verRes.out = "True" /\ verHash.done) =>
        verHash.a = verHash.b

(***************************************************************************)
(* set_nisdomain: properties                                               *)
(***************************************************************************)
\* the lines of a file without their "\n"
BareLines(file) ==
    LET ls == IF file = Absent THEN <<>> ELSE FileLines(file)
        Bare(line) == IF line # <<>> /\ line[Len(line)] = "\n"
                      THEN SubSeq(line, 1, Len(line) - 1) ELSE line
    IN  [i \in 1..Len(ls) |-> Bare(ls[i])]

\* C15: after set_nisdomain(d) on any prior content of the file (missing,
\* empty, with or without NISDOMAIN lines in any letter case, last line with
\* or without its newline) exactly one line of the file sets NISDOMAIN, it is
\* 'NISDOMAIN=d' and it is the last line, every other line that was there is
\* kept unchanged and in order, and a second set_nisdomain(d) leaves the file
\* as it is.
C15_SetNisdomain ==
    (nisCall.calls >= 1) =>
        LET now == BareLines(sysconfNetwork)
            Other(line) == ~IsNisdomainLine(line)
        IN  /\ Cardinality({i \in 1..Len(now) : IsNisdomainLine(now[i])}) = 1
            /\ now # <<>>
            /\ now[Len(now)] = NISDOMAIN \o <<"=">> \o nisCall.nisdomain
            /\ SubSeq(now, 1, Len(now) - 1) = SelectSeq(BareLines(nisCall.before), Other)
            /\ (nisCall.calls >= 2 /\ nisCall.previous = nisCall.nisdomain) =>
                   sysconfNetwork = nisCall.before

====
